---- MODULE Spec2Model ----
(***************************************************************************)
(* pvw: a terminal viewer of the processes that hold network ports open.   *)
(* The model covers main.go: the lsof collector outcomes, parseLsof,       *)
(* getCwd, formatLsof, and the bubbletea model's Update handler with the   *)
(* commands it issues and the messages they deliver.                       *)
(*                                                                         *)
(* Go strings are TLA+ strings; s[lo:hi] is Slice(s, lo, hi).  A Go        *)
(* run-time panic (index or slice out of range) is the result kind         *)
(* "panic".                                                                *)
(***************************************************************************)
EXTENDS Integers, Sequences, FiniteSets, Bags, TLC

\* ------------------------------------------------------------------------
\* Bounds of the model

\* Largest number of chunks (process headers and connection segments) in
\* one lsof output drawn by ParseSpec.
MaxItems == 4

\* Largest number of commands and messages in flight at once in Spec.
MaxInFlight == 2

\* ------------------------------------------------------------------------
\* Go string and slice primitives used by main.go

\* s[lo:hi] of Go, for 0 <= lo <= hi <= len(s)
Slice(s, lo, hi) == SubSeq(s, lo + 1, hi)

\* s[lo:] of Go, for 0 <= lo <= len(s)
SliceFrom(s, lo) == SubSeq(s, lo + 1, Len(s))

\* the offsets at which sep occurs in s
Matches(s, sep) ==
    {i \in 0..(Len(s) - Len(sep)) : SubSeq(s, i + 1, i + Len(sep)) = sep}

\* the pieces of s[from:] between the leftmost non-overlapping occurrences
\* of sep, the occurrences of sep in s being at the offsets in found
RECURSIVE SplitFrom(_, _, _, _)
SplitFrom(s, sep, from, found) ==
    LET later == {i \in found : i >= from} IN
    IF later = {} THEN <<SliceFrom(s, from)>>
    ELSE LET i == CHOOSE m \in later : \A k \in later : m <= k
         IN  <<Slice(s, from, i)>> \o SplitFrom(s, sep, i + Len(sep), found)

\* strings.Split(s, sep) for a non-empty sep: always at least one element
Split(s, sep) == SplitFrom(s, sep, 0, Matches(s, sep))

\* slices.Contains(list, x)
Contains(list, x) == \E i \in 1..Len(list) : list[i] = x

Digits == <<"0", "1", "2", "3", "4", "5", "6", "7", "8", "9">>

IsDigit(c) == \E d \in 1..10 : Digits[d] = c

DigitVal(c) == (CHOOSE d \in 1..10 : Digits[d] = c) - 1

RECURSIVE DigitsVal(_, _)
DigitsVal(s, acc) ==
    IF Len(s) = 0 THEN acc
    ELSE DigitsVal(SliceFrom(s, 1), acc * 10 + DigitVal(Slice(s, 0, 1)))

AllDigits(s) == \A i \in 1..Len(s) : IsDigit(SubSeq(s, i, i))

\* strconv.Atoi(s): an optional sign, then one or more decimal digits
Atoi(s) ==
    LET signed == Len(s) > 0 /\ Slice(s, 0, 1) \in {"+", "-"}
        body == IF signed THEN SliceFrom(s, 1) ELSE s
    IN  IF Len(body) = 0 \/ ~AllDigits(body)
        THEN [ok |-> FALSE, val |-> 0]
        ELSE [ok |-> TRUE,
              val |-> IF signed /\ Slice(s, 0, 1) = "-"
                      THEN 0 - DigitsVal(body, 0) ELSE DigitsVal(body, 0)]

RECURSIVE ItoaNat(_)
ItoaNat(n) ==
    IF n < 10 THEN Digits[n + 1] ELSE ItoaNat(n \div 10) \o Digits[(n % 10) + 1]

\* strconv.Itoa(n)
Itoa(n) == IF n < 0 THEN "-" \o ItoaNat(0 - n) ELSE ItoaNat(n)

LowerLetters == "abcdefghijklmnopqrstuvwxyz"

UpperLetters == "ABCDEFGHIJKLMNOPQRSTUVWXYZ"

TitleChar(c) ==
    IF \E i \in 1..26 : SubSeq(LowerLetters, i, i) = c
    THEN LET i == CHOOSE j \in 1..26 : SubSeq(LowerLetters, j, j) = c
         IN  SubSeq(UpperLetters, i, i)
    ELSE c

\* strings.ToTitle(s) on ASCII text
RECURSIVE ToTitle(_)
ToTitle(s) ==
    IF Len(s) = 0 THEN "" ELSE TitleChar(Slice(s, 0, 1)) \o ToTitle(SliceFrom(s, 1))

\* ------------------------------------------------------------------------
\* Records of main.go

\* connection{} : the zero value of struct connection
EmptyConnection ==
    [protocol |-> "", status |-> "", remotePort |-> "", remoteAddress |-> "",
     localPort |-> "", localAddress |-> ""]

\* process{id, name, username, directory, connections}
MkProcess(pid, cmd, user, cwd, conns) ==
    [id |-> pid, name |-> cmd, directory |-> cwd, connections |-> conns,
     username |-> user]

\* error values: "" is Go's nil error
NoError == ""

ErrAtoi == "strconv.Atoi: invalid syntax"

ErrExit1 == "exit status 1"

ErrExit2 == "exit status 2"

\* ------------------------------------------------------------------------
\* getCwd

\* cmd.Output() of `lsof -p PID -F n`: what the environment lsofP answers for
\* the pid; a pid the environment does not know makes lsof exit with status 1
CwdOutput(pid, lsofP) ==
    IF pid \in DOMAIN lsofP THEN lsofP[pid] ELSE [err |-> ErrExit1, out |-> ""]

getCwd(pid, lsofP) ==
    LET r == CwdOutput(pid, lsofP)
        cwdSplit == Split(r.out, "fcwd\nn")
    IN  IF r.err # NoError THEN [kind |-> "error", val |-> "", err |-> r.err]
        ELSE IF Len(cwdSplit) < 1 THEN [kind |-> "ok", val |-> "", err |-> NoError]
        ELSE IF Len(cwdSplit) < 2 THEN [kind |-> "panic", val |-> "", err |-> NoError]
        ELSE [kind |-> "ok", val |-> Split(cwdSplit[2], "\n")[1], err |-> NoError]

\* ------------------------------------------------------------------------
\* parseLsof

\* A connection being parsed: valid, tmpConnection, and whether the
\* goroutine has panicked.
StartConnection == [valid |-> TRUE, conn |-> EmptyConnection, panic |-> FALSE]

\* "Check validity with ports": the port filter applied after an address line
portCheck(st, options) ==
    IF Len(options.portFilter) > 0
       /\ ~(Contains(options.portFilter, st.conn.localPort)
            \/ Contains(options.portFilter, st.conn.remotePort))
    THEN [st EXCEPT !.valid = FALSE]
    ELSE st

\* case "n": local and remote addresses and ports
parseAddress(st, prop, options) ==
    IF SliceFrom(prop, 1) = "*:*" THEN [st EXCEPT !.valid = FALSE]
    ELSE
      LET splitLocalAndRemote == Split(SliceFrom(prop, 1), "->")
          splitLocalAddressAndPort == Split(splitLocalAndRemote[1], ":")
      IN  IF Len(splitLocalAndRemote) > 1
          THEN LET splitRemoteAddressAndPort == Split(splitLocalAndRemote[2], ":")
               IN  IF Len(splitLocalAddressAndPort) < 2
                      \/ Len(splitRemoteAddressAndPort) < 2
                   THEN [st EXCEPT !.panic = TRUE]
                   ELSE portCheck(
                          [st EXCEPT !.conn.localAddress = splitLocalAddressAndPort[1],
                                     !.conn.localPort = splitLocalAddressAndPort[2],
                                     !.conn.remoteAddress = splitRemoteAddressAndPort[1],
                                     !.conn.remotePort = splitRemoteAddressAndPort[2]],
                          options)
          ELSE IF Len(splitLocalAddressAndPort) < 2
               THEN [st EXCEPT !.panic = TRUE]
               ELSE portCheck(
                      [st EXCEPT !.conn.localAddress = splitLocalAddressAndPort[1],
                                 !.conn.localPort = splitLocalAddressAndPort[2]],
                      options)

\* the show-closed test of case "T"
closedCheck(st, status, options) ==
    IF status = "CLOSED" /\ options.showClosed
    THEN [st EXCEPT !.valid = FALSE] ELSE st

\* the listen-only test of case "T"
listenCheck(st, status, options) ==
    IF options.listenOnly /\ status # "LISTEN"
    THEN [st EXCEPT !.valid = FALSE] ELSE st

\* case "T": the TST= line sets the status and applies the status filters
parseStatus(st, prop, options) ==
    IF Len(prop) < 4 THEN [st EXCEPT !.panic = TRUE]
    ELSE IF Slice(prop, 0, 4) = "TST="
    THEN LET status == SliceFrom(prop, 4)
         IN  listenCheck(
               closedCheck([st EXCEPT !.conn.status = status], status, options),
               status, options)
    ELSE st

\* one pass of the loop over connectionInfo
parseProperty(st, prop, options) ==
    IF Len(prop) = 0 THEN st
    ELSE LET tag == Slice(prop, 0, 1)
         IN  IF tag = "P" THEN [st EXCEPT !.conn.protocol = SliceFrom(prop, 1)]
             ELSE IF tag = "n" THEN parseAddress(st, prop, options)
             ELSE IF tag = "T" THEN parseStatus(st, prop, options)
             ELSE st

RECURSIVE parseProperties(_, _, _, _)
parseProperties(st, connectionInfo, i, options) ==
    IF st.panic \/ i > Len(connectionInfo) THEN st
    ELSE parseProperties(parseProperty(st, connectionInfo[i], options),
                         connectionInfo, i + 1, options)

\* the body of the loop over connectionSplit[1:] up to `if valid`
parseConnection(connectionString, options) ==
    parseProperties(StartConnection, Split(connectionString, "\n"), 1, options)

\* `if valid { allConnections = append(allConnections, tmpConnection) }`
appendIfValid(allConnections, st) ==
    IF st.valid THEN Append(allConnections, st.conn) ELSE allConnections

\* the loop over connectionSplit[1:]
RECURSIVE parseConnections(_, _, _, _)
parseConnections(connectionSplit, i, options, allConnections) ==
    IF i > Len(connectionSplit) THEN [panic |-> FALSE, conns |-> allConnections]
    ELSE LET st == parseConnection(connectionSplit[i], options)
         IN  IF st.panic THEN [panic |-> TRUE, conns |-> allConnections]
             ELSE parseConnections(connectionSplit, i + 1, options,
                                   appendIfValid(allConnections, st))

\* appendProcess without its test: a process is kept whatever it holds
appendProcessUnchecked(allProcesses, proc) == Append(allProcesses, proc)

\* `if len(allConnections) > 0 { allProcesses = append(allProcesses, ...) }`
appendProcess(allProcesses, proc) ==
    IF Len(proc.connections) > 0 THEN Append(allProcesses, proc) ELSE allProcesses

\* the name-filter test guarding the parsing of a block's connections
namePasses(options, cmd) ==
    ~(Len(options.nameFilter) > 0) \/ Contains(options.nameFilter, cmd)

\* The first line of a block's header: the block with index 0 still
\* carries its leading 'p'.
pidField(processIndex, processInfo) ==
    IF processIndex = 0 THEN SliceFrom(processInfo[1], 1) ELSE processInfo[1]

PanicResult(lookups) ==
    [kind |-> "panic", err |-> NoError, processes |-> <<>>, lookups |-> lookups]

ErrorResult(err, lookups) ==
    [kind |-> "error", err |-> err, processes |-> <<>>, lookups |-> lookups]

\* The loop over `separated`.  processIndex is Go's 0-based index;
\* lookups lists the pids getCwd was called for, in order.
RECURSIVE parseBlocks(_, _, _, _, _, _)
parseBlocks(separated, processIndex, options, lsofP, allProcesses, lookups) ==
    IF processIndex >= Len(separated)
    THEN [kind |-> "ok", err |-> NoError, processes |-> allProcesses,
          lookups |-> lookups]
    ELSE
      LET connectionSplit == Split(separated[processIndex + 1], "\nf")
          processInfo == Split(connectionSplit[1], "\n")
      IN
      IF processIndex = 0 /\ Len(processInfo[1]) = 0 THEN PanicResult(lookups)
      ELSE
      LET pid == Atoi(pidField(processIndex, processInfo))
      IN
      IF ~pid.ok THEN ErrorResult(ErrAtoi, lookups)
      ELSE
      LET cwd == IF options.getCwd THEN getCwd(pid.val, lsofP)
                 ELSE [kind |-> "ok", val |-> "", err |-> NoError]
          looked == IF options.getCwd THEN Append(lookups, pid.val) ELSE lookups
      IN
      IF cwd.kind = "error" THEN ErrorResult(cwd.err, looked)
      ELSE IF cwd.kind = "panic" THEN PanicResult(looked)
      ELSE IF Len(processInfo) < 2 \/ Len(processInfo[2]) = 0 THEN PanicResult(looked)
      ELSE
      LET cmd == SliceFrom(processInfo[2], 1)
      IN
      IF ~namePasses(options, cmd)
      THEN parseBlocks(separated, processIndex + 1, options, lsofP,
                       allProcesses, looked)
      ELSE IF Len(processInfo) < 3 \/ Len(processInfo[3]) = 0 THEN PanicResult(looked)
      ELSE
      LET user == SliceFrom(processInfo[3], 1)
          parsed == parseConnections(Tail(connectionSplit), 1, options, <<>>)
      IN
      IF parsed.panic THEN PanicResult(looked)
      ELSE parseBlocks(separated, processIndex + 1, options, lsofP,
                       appendProcess(allProcesses,
                                     MkProcess(pid.val, cmd, user, cwd.val,
                                               parsed.conns)),
                       looked)

\* parseLsof(raw, options), with the environment lsofP that getCwd runs in
parseLsof(raw, options, lsofP) ==
    parseBlocks(Split(raw, "\np"), 0, options, lsofP, <<>>, <<>>)

\* ------------------------------------------------------------------------
\* formatLsof

\* the switch on column.Title; connIndex is Go's 0-based index
columnValue(title, proc, connIndex, conn) ==
    CASE title = "PID" -> IF connIndex = 0 THEN Itoa(proc.id) ELSE ""
      [] title = "Name" -> IF connIndex = 0 THEN proc.name ELSE ""
      [] title = "Directory" -> IF connIndex = 0 THEN proc.directory ELSE ""
      [] title = "Owner" -> IF connIndex = 0 THEN proc.username ELSE ""
      [] title = "Protocol" -> conn.protocol
      [] title = "Address" ->
           IF conn.remoteAddress # "" THEN conn.remoteAddress ELSE conn.localAddress
      [] title = "Port" ->
           IF conn.remotePort # "" THEN conn.remotePort ELSE conn.localPort
      [] title = "Local Address" -> conn.localAddress
      [] title = "Local Port" -> conn.localPort
      [] title = "Remote Address" -> conn.remoteAddress
      [] title = "Remote Port" -> conn.remotePort
      [] title = "Status" -> ToTitle(conn.status)
      [] OTHER -> ""

\* one table.Row
formatRow(proc, connIndex, options) ==
    [c \in 1..Len(options.columns) |->
        columnValue(options.columns[c], proc, connIndex,
                    proc.connections[connIndex + 1])]

\* the rows of one process, appended to rows
procRows(rows, proc, options) ==
    rows \o [k \in 1..Len(proc.connections) |-> formatRow(proc, k - 1, options)]

\* `rowStarts = append(rowStarts, len(rows))`
appendRowStart(rowStarts, rows) == Append(rowStarts, Len(rows))

\* formatProcs recording where the rows of a process end, not where they
\* start
RECURSIVE formatProcsEnds(_, _, _, _, _)
formatProcsEnds(procs, i, options, rows, rowStarts) ==
    IF i > Len(procs) THEN [rows |-> rows, ends |-> rowStarts]
    ELSE LET grown == procRows(rows, procs[i], options)
         IN  formatProcsEnds(procs, i + 1, options, grown,
                             appendRowStart(rowStarts, grown))

\* the loop over processes
RECURSIVE formatProcs(_, _, _, _, _)
formatProcs(procs, i, options, rows, rowStarts) ==
    IF i > Len(procs) THEN [rows |-> rows, ends |-> rowStarts]
    ELSE formatProcs(procs, i + 1, options,
                     procRows(rows, procs[i], options),
                     appendRowStart(rowStarts, rows))

formatLsof(procs, options) == formatProcs(procs, 1, options, <<>>, <<>>)

\* ------------------------------------------------------------------------
\* Messages and checkProcesses

processesMsg(procs, rows, ends) ==
    [type |-> "processesMsg", processes |-> procs, rows |-> rows, ends |-> ends,
     err |-> NoError]

errMsg(e) ==
    [type |-> "errMsg", processes |-> <<>>, rows |-> <<>>, ends |-> <<>>, err |-> e]

terminateMsg ==
    [type |-> "terminateMsg", processes |-> <<>>, rows |-> <<>>, ends |-> <<>>,
     err |-> NoError]

\* the goroutine died before it returned a message
panicMsg ==
    [type |-> "panic", processes |-> <<>>, rows |-> <<>>, ends |-> <<>>,
     err |-> NoError]

\* getLsof(): cmd.Output() gave (out, err); an error drops the output
getLsof(lsof) ==
    IF lsof.err # NoError THEN [out |-> "", err |-> lsof.err]
    ELSE [out |-> lsof.out, err |-> NoError]

\* the test `!(err.Error() == "1")` on a failed getLsof
notErrorOne(e) == ~(e = "1")

\* parseLsof was not called
NotParsed ==
    [kind |-> "none", err |-> NoError, processes |-> <<>>, lookups |-> <<>>]

\* The function checkProcesses returns, run with lsof answering `lsof` and
\* the per-pid lookups answering lsofP: the message it returns, with the
\* result parseLsof gave it.
checkProcesses(settingsInfo, lsof, lsofP) ==
    LET got == getLsof(lsof) IN
    IF got.err # NoError
    THEN IF notErrorOne(got.err)
         THEN [msg |-> processesMsg(<<>>, <<>>, <<>>), parsed |-> NotParsed]
         ELSE [msg |-> errMsg(got.err), parsed |-> NotParsed]
    ELSE LET parsed == parseLsof(got.out, settingsInfo, lsofP) IN
         IF parsed.kind = "panic" THEN [msg |-> panicMsg, parsed |-> parsed]
         ELSE IF parsed.kind = "error"
         THEN [msg |-> errMsg(parsed.err), parsed |-> parsed]
         ELSE LET formatted == formatLsof(parsed.processes, settingsInfo)
              IN  [msg |-> processesMsg(parsed.processes, formatted.rows,
                                        formatted.ends),
                   parsed |-> parsed]

\* ------------------------------------------------------------------------
\* State

VARIABLES
    settings,    \* model.settings, fixed by main before the program starts
    table,       \* model.table: its rows and its cursor
    rowStarts,   \* model.rowStarts
    processes,   \* model.processes
    err,         \* model.err, NoError for nil
    cmds,        \* bag of the commands issued and not yet run
    msgs,        \* bag of the messages returned and not yet handled
    last,        \* the message Update handled last and the command it returned
    crashed,     \* a command's goroutine panicked and took the program down
    run          \* the pipeline run made under PipelineSpec

vars ==
    <<settings, table, rowStarts, processes, err, cmds, msgs, last, crashed, run>>

\* ------------------------------------------------------------------------
\* Inputs

\* The columns main selects: PID, Port and Status are on by default, and
\* the flag that enables getCwd also enables the Directory column.
ColumnsFor(cwd) ==
    IF cwd THEN <<"PID", "Directory", "Port", "Status">>
    ELSE <<"PID", "Port", "Status">>

MkSettings(readOnly, showClosed, listenOnly, cwd, portFilter, nameFilter) ==
    [readOnly |-> readOnly, showClosed |-> showClosed, listenOnly |-> listenOnly,
     getCwd |-> cwd, columns |-> ColumnsFor(cwd), portFilter |-> portFilter,
     nameFilter |-> nameFilter]

PortFilters == {<<>>, <<"80">>}

NameFilters == {<<>>, <<"sshd">>}

\* The settings the pipeline is exercised with: every combination of the
\* status and list filters without lookups, and every combination of the
\* list filters with lookups (getCwd and the name test are the only code
\* that a lookup meets; the status tests read one connection line).
ParseSettings ==
    {MkSettings(FALSE, sc, lo, FALSE, pf, nf) :
        sc \in BOOLEAN, lo \in BOOLEAN, pf \in PortFilters, nf \in NameFilters}
    \cup {MkSettings(FALSE, FALSE, FALSE, TRUE, pf, nf) :
            pf \in PortFilters, nf \in NameFilters}

\* lsof -F cPnpLT output, in chunks: a process header (p, c, L lines) ...
Headers == {"p12\ncsshd\nLroot\n", "p7\ncnginx\nLwww\n"}

\* ... and a file-descriptor segment (f, then P, n, T lines): a listening
\* socket, a closed connection, a UDP socket (no state line), a descriptor
\* without an address line
Segments ==
    {"f3\nPTCP\nn*:80\nTST=LISTEN\n",
     "f4\nPTCP\nn10.0.0.1:22->10.0.0.5:80\nTST=CLOSED\n",
     "f5\nPUDP\nn*:53\n",
     "f7\nPTCP\n"}

Chunks == Headers \cup Segments

\* the texts of exactly n chunks that start with a process header
RECURSIVE TextsOf(_)
TextsOf(n) ==
    IF n = 0 THEN {""}
    ELSE IF n = 1 THEN Headers
    ELSE {t \o c : t \in TextsOf(n - 1), c \in Chunks}

\* two processes, the first with two sockets
TwoProcessText ==
    "p12\ncsshd\nLroot\nf3\nPTCP\nn*:22\nTST=LISTEN\n"
    \o "f4\nPTCP\nn10.0.0.1:22->10.0.0.5:80\nTST=ESTABLISHED\n"
    \o "p7\ncnginx\nLwww\nf3\nPTCP\nn*:80\nTST=LISTEN\n"

\* one process with one socket
OneProcessText == "p7\ncnginx\nLwww\nf3\nPTCP\nn*:80\nTST=LISTEN\n"

\* sockets bound to the wildcard address *:*
WildTexts ==
    {"p12\ncsshd\nLroot\nf6\nPUDP\nn*:*\n",
     "p12\ncsshd\nLroot\nf6\nPUDP\nn*:*\nf3\nPTCP\nn*:80\nTST=LISTEN\n"}

\* texts that are no lsof field output: an empty line, a line that is no
\* field, a pid that is no number, a header cut short
OddTexts == {"\n", "x\n", "p\ncsshd\nLroot\n", "p12"}

LsofTexts ==
    UNION {TextsOf(n) : n \in 0..MaxItems}
    \cup {TwoProcessText, OneProcessText} \cup WildTexts \cup OddTexts

\* what `lsof -i -Pn -F cPnpLT` can answer: a text, or a failure
LsofOutcomes ==
    {[out |-> t, err |-> NoError] : t \in LsofTexts}
    \cup {[out |-> "", err |-> e] : e \in {ErrExit1, ErrExit2}}

Pids == {12, 7}

\* what `lsof -p PID -F n` can answer for a pid: a failure, a text with
\* the fcwd field, a text without it
CwdKinds == {"failure", "cwd", "no cwd"}

CwdOutcome(pid, kind) ==
    CASE kind = "failure" -> [out |-> "", err |-> ErrExit1]
      [] kind = "cwd" ->
           [out |-> "p" \o Itoa(pid) \o "\nfcwd\nn/srv\nftxt\nn/bin/x\n",
            err |-> NoError]
      [] OTHER -> [out |-> "p" \o Itoa(pid) \o "\nftxt\nn/bin/x\n", err |-> NoError]

\* the lookup environments: an answer for every pid
LsofPs == {[p \in Pids |-> CwdOutcome(p, kinds[p])] : kinds \in [Pids -> CwdKinds]}

NoLookups == [p \in Pids |-> [out |-> "", err |-> ErrExit1]]

\* the lookup environments of a pipeline run: every one when lookups are
\* made, and one when none is
LsofPFor(s) == IF s.getCwd THEN LsofPs ELSE {NoLookups}

\* ------------------------------------------------------------------------
\* Initial state

NoCmd == [kind |-> "none", id |-> 0]

checkProcessesCmd == [kind |-> "checkProcesses", id |-> 0]

terminateProcessCmd(id) == [kind |-> "terminateProcess", id |-> id]

NoRun ==
    [kind |-> "none", lsof |-> [out |-> "", err |-> NoError], lsofP |-> NoLookups,
     parsed |-> NotParsed, msg |-> terminateMsg]

\* main builds the model with an empty table; Init() returns checkProcesses
InitModel ==
    /\ table = [rows |-> <<>>, cursor |-> 0]
    /\ rowStarts = <<>>
    /\ processes = <<>>
    /\ err = NoError
    /\ cmds = SetToBag({checkProcessesCmd})
    /\ msgs = EmptyBag
    /\ last = [msg |-> "init", cmd |-> checkProcessesCmd]
    /\ crashed = FALSE
    /\ run = NoRun

\* ------------------------------------------------------------------------
\* The pipeline as a function of its inputs

PipelineInit ==
    /\ settings \in ParseSettings
    /\ InitModel

\* one run of the command Init() issued, on any lsof answer
PipelineRun ==
    /\ run.kind = "none"
    /\ \E lsof \in LsofOutcomes, lsofP \in LsofPFor(settings) :
          LET r == checkProcesses(settings, lsof, lsofP) IN
          run' = [kind |-> "done", lsof |-> lsof, lsofP |-> lsofP,
                  parsed |-> r.parsed, msg |-> r.msg]
    /\ UNCHANGED <<settings, table, rowStarts, processes, err, cmds, msgs, last,
                   crashed>>

PipelineNext == PipelineRun

PipelineSpec == PipelineInit /\ [][PipelineNext]_vars

\* ------------------------------------------------------------------------
\* The running program: commands, messages and Update

\* the settings the program is run with: the flag defaults, with read-only
\* mode and working-directory lookup either way
RunSettings ==
    {MkSettings(ro, FALSE, FALSE, cwd, <<>>, <<>>) : ro \in BOOLEAN, cwd \in BOOLEAN}

\* what lsof answers while the program runs: two processes, the first with
\* two sockets; one process; or a failure
RunLsofOutcomes ==
    {[out |-> TwoProcessText, err |-> NoError],
     [out |-> OneProcessText, err |-> NoError],
     [out |-> "", err |-> ErrExit1],
     [out |-> "", err |-> ErrExit2]}

\* the lookup environments while the program runs: the same kind of
\* answer for every pid
RunLsofPFor(s) ==
    IF s.getCwd THEN {[p \in Pids |-> CwdOutcome(p, kind)] : kind \in CwdKinds}
    ELSE {NoLookups}

InFlight == BagCardinality(cmds) + BagCardinality(msgs)

\* table.Model's clamp(v, low, high)
clamp(v, low, high) ==
    LET raised == IF v > low THEN v ELSE low
    IN  IF raised < high THEN raised ELSE high

\* table.Model.MoveUp(1) / MoveDown(1), reached through m.table.Update(msg)
moveCursor(t, by) ==
    [t EXCEPT !.cursor = clamp(t.cursor + by, 0, Len(t.rows) - 1)]

\* table.Model.SetRows(rows): the cursor stays where it is
SetRows(t, newRows) == [t EXCEPT !.rows = newRows]

\* The loop of the Terminate key: the index of the process to terminate,
\* or -1 when the loop ends without one.
RECURSIVE terminateIndex(_, _, _)
terminateIndex(i, cursor, procs) ==
    IF i < Len(procs)
    THEN IF i >= cursor THEN i ELSE terminateIndex(i + 1, cursor, procs)
    ELSE -1

\* the command Update returns for the Terminate key
terminateKey(s, t, procs) ==
    IF Len(procs) > 0
    THEN LET i == terminateIndex(0, t.cursor, procs)
         IN  IF i >= 0 THEN terminateProcessCmd(procs[i + 1].id) ELSE NoCmd
    ELSE NoCmd

AddCmd(c) == IF c = NoCmd THEN cmds ELSE cmds (+) SetToBag({c})

\* Update(tea.KeyMsg) matching keys.Refresh
KeyRefresh ==
    /\ ~crashed
    /\ InFlight < MaxInFlight
    /\ cmds' = AddCmd(checkProcessesCmd)
    /\ last' = [msg |-> "key:refresh", cmd |-> checkProcessesCmd]
    /\ UNCHANGED <<settings, table, rowStarts, processes, err, msgs, crashed, run>>

\* Update(tea.KeyMsg) matching keys.Terminate
KeyTerminate ==
    /\ ~crashed
    /\ InFlight < MaxInFlight
    /\ LET c == terminateKey(settings, table, processes) IN
         /\ cmds' = AddCmd(c)
         /\ last' = [msg |-> "key:terminate", cmd |-> c]
    /\ UNCHANGED <<settings, table, rowStarts, processes, err, msgs, crashed, run>>

\* Update(tea.KeyMsg) for the keys the table handles: up and down
KeyMove ==
    /\ ~crashed
    /\ \E by \in {-1, 1} :
         /\ table' = moveCursor(table, by)
         /\ last' = [msg |-> IF by < 0 THEN "key:up" ELSE "key:down", cmd |-> NoCmd]
    /\ UNCHANGED <<settings, rowStarts, processes, err, cmds, msgs, crashed, run>>

\* the goroutine of a checkProcesses command runs and returns its message
RunCheckProcesses ==
    /\ ~crashed
    /\ BagIn(checkProcessesCmd, cmds)
    /\ \E lsof \in RunLsofOutcomes, lsofP \in RunLsofPFor(settings) :
         LET m == checkProcesses(settings, lsof, lsofP).msg IN
         IF m.type = "panic"
         THEN /\ crashed' = TRUE
              /\ UNCHANGED <<cmds, msgs>>
         ELSE /\ cmds' = cmds (-) SetToBag({checkProcessesCmd})
              /\ msgs' = msgs (+) SetToBag({m})
              /\ UNCHANGED crashed
    /\ UNCHANGED <<settings, table, rowStarts, processes, err, last, run>>

\* the message terminateProcess(id) returns when `kill` ended with killErr
terminateProcess(id, killErr) ==
    IF killErr # NoError THEN errMsg(killErr) ELSE terminateMsg

\* the goroutine of a terminateProcess command runs and returns its message
RunTerminateProcess ==
    /\ ~crashed
    /\ \E c \in BagToSet(cmds), killErr \in {NoError, ErrExit1} :
         /\ c.kind = "terminateProcess"
         /\ cmds' = cmds (-) SetToBag({c})
         /\ msgs' = msgs (+) SetToBag({terminateProcess(c.id, killErr)})
    /\ UNCHANGED <<settings, table, rowStarts, processes, err, last, crashed, run>>

\* a variant of Update(processesMsg) that keeps the row starts it had
UpdateProcessesMsgKeepsRowStarts ==
    /\ ~crashed
    /\ \E m \in BagToSet(msgs) :
         /\ m.type = "processesMsg"
         /\ msgs' = msgs (-) SetToBag({m})
         /\ table' = SetRows(table, m.rows)
         /\ processes' = m.processes
    /\ last' = [msg |-> "processesMsg", cmd |-> NoCmd]
    /\ UNCHANGED <<settings, rowStarts, err, cmds, crashed, run>>

\* a variant of Update(processesMsg) that clears the last error when data loads
UpdateProcessesMsgClearsErr ==
    /\ ~crashed
    /\ \E m \in BagToSet(msgs) :
         /\ m.type = "processesMsg"
         /\ msgs' = msgs (-) SetToBag({m})
         /\ table' = SetRows(table, m.rows)
         /\ rowStarts' = m.ends
         /\ processes' = m.processes
    /\ err' = NoError
    /\ last' = [msg |-> "processesMsg", cmd |-> NoCmd]
    /\ UNCHANGED <<settings, cmds, crashed, run>>

\* Update(processesMsg)
UpdateProcessesMsg ==
    /\ ~crashed
    /\ \E m \in BagToSet(msgs) :
         /\ m.type = "processesMsg"
         /\ msgs' = msgs (-) SetToBag({m})
         /\ table' = SetRows(table, m.rows)
         /\ rowStarts' = m.ends
         /\ processes' = m.processes
    /\ last' = [msg |-> "processesMsg", cmd |-> NoCmd]
    /\ UNCHANGED <<settings, err, cmds, crashed, run>>

\* Update(terminateMsg)
UpdateTerminateMsg ==
    /\ ~crashed
    /\ BagIn(terminateMsg, msgs)
    /\ msgs' = msgs (-) SetToBag({terminateMsg})
    /\ cmds' = AddCmd(checkProcessesCmd)
    /\ last' = [msg |-> "terminateMsg", cmd |-> checkProcessesCmd]
    /\ UNCHANGED <<settings, table, rowStarts, processes, err, crashed, run>>

\* a variant of Update(errMsg) that drops the snapshot when it records the error
UpdateErrMsgDropsSnapshot ==
    /\ ~crashed
    /\ \E m \in BagToSet(msgs) :
         /\ m.type = "errMsg"
         /\ msgs' = msgs (-) SetToBag({m})
         /\ err' = m.err
    /\ table' = SetRows(table, <<>>)
    /\ rowStarts' = <<>>
    /\ processes' = <<>>
    /\ last' = [msg |-> "errMsg", cmd |-> NoCmd]
    /\ UNCHANGED <<settings, cmds, crashed, run>>

\* Update(errMsg)
UpdateErrMsg ==
    /\ ~crashed
    /\ \E m \in BagToSet(msgs) :
         /\ m.type = "errMsg"
         /\ msgs' = msgs (-) SetToBag({m})
         /\ err' = m.err
    /\ last' = [msg |-> "errMsg", cmd |-> NoCmd]
    /\ UNCHANGED <<settings, table, rowStarts, processes, cmds, crashed, run>>

Init ==
    /\ settings \in RunSettings
    /\ InitModel

Next ==
    \/ KeyRefresh
    \/ KeyTerminate
    \/ KeyMove
    \/ RunCheckProcesses
    \/ RunTerminateProcess
    \/ UpdateProcessesMsg
    \/ UpdateTerminateMsg
    \/ UpdateErrMsg

Spec == Init /\ [][Next]_vars

\* ------------------------------------------------------------------------
\* Properties

\* the connections of a sequence of processes
AllConns(procs) ==
    UNION {{procs[i].connections[k] : k \in 1..Len(procs[i].connections)} :
             i \in 1..Len(procs)}

RECURSIVE ConnCount(_, _)
ConnCount(procs, n) ==
    IF n = 0 THEN 0 ELSE ConnCount(procs, n - 1) + Len(procs[n].connections)

\* the number of connections with the status among the first n processes
RECURSIVE StatusCount(_, _, _)
StatusCount(procs, n, status) ==
    IF n = 0 THEN 0
    ELSE StatusCount(procs, n - 1, status)
         + Cardinality({k \in 1..Len(procs[n].connections) :
                          procs[n].connections[k].status = status})

\* the pipeline ran parseLsof and it returned normally
Parsed == run.kind = "done" /\ run.parsed.kind = "ok"

\* the header lines of the blocks of a text: pid field and command name
BlockHeads(text) ==
    LET blocks == Split(text, "\np")
        info(k) == Split(Split(blocks[k], "\nf")[1], "\n")
    IN  {[pid |-> IF k = 1 THEN SliceFrom(info(k)[1], 1) ELSE info(k)[1],
          cmd |-> SliceFrom(info(k)[2], 1)] :
            k \in {j \in 1..Len(blocks) :
                     /\ Len(info(j)) >= 2
                     /\ Len(info(j)[1]) > 0
                     /\ Len(info(j)[2]) > 0}}

\* the pids of the blocks of a text that the name allow-list excludes
ExcludedPids(text, options) ==
    {Atoi(h.pid).val :
        h \in {g \in BlockHeads(text) :
                 /\ Atoi(g.pid).ok
                 /\ Len(options.nameFilter) > 0
                 /\ ~Contains(options.nameFilter, g.cmd)}}

\* a text with no process block: no line starts with the p field
NoBlocks(text) ==
    /\ Len(text) = 0 \/ Slice(text, 0, 1) # "p"
    /\ Matches(text, "\np") = {}

\* the process that owns displayed row r: the i with
\* rowStarts[i] <= r < rowStarts[i+1], the last process having no upper end
RowOwner(r) ==
    CHOOSE i \in 1..Len(rowStarts) :
        /\ rowStarts[i] <= r
        /\ i = Len(rowStarts) \/ r < rowStarts[i + 1]

CursorOnRow == table.cursor >= 0 /\ table.cursor < Len(table.rows)

\* C1: in read-only mode the Terminate key issues no termination: Update
\* never returns a terminateProcess command for it, and none is in flight.
C1_ReadOnlyIssuesNoTermination ==
    settings.readOnly =>
        /\ ~(last.msg = "key:terminate" /\ last.cmd.kind = "terminateProcess")
        /\ \A c \in BagToSet(cmds) : c.kind # "terminateProcess"

\* C2: with the cursor on a displayed row, the Terminate key issues the
\* termination of the process that owns that row under rowStarts.
C2_TerminatesRowOwner ==
    (/\ ~settings.readOnly
     /\ last.msg = "key:terminate"
     /\ Len(processes) > 0
     /\ CursorOnRow)
        => last.cmd = terminateProcessCmd(processes[RowOwner(table.cursor)].id)

\* C3: with showClosed disabled no CLOSED connection is in the result; with
\* showClosed enabled, and no other filter active, every CLOSED connection
\* of the text is in the result.
C3_ShowClosedFilter ==
    Parsed =>
        /\ ~settings.showClosed =>
              \A c \in AllConns(run.parsed.processes) : c.status # "CLOSED"
        /\ (/\ settings.showClosed
            /\ ~settings.listenOnly
            /\ Len(settings.portFilter) = 0
            /\ Len(settings.nameFilter) = 0
            /\ run.lsof.out \in UNION {TextsOf(n) : n \in 1..MaxItems})
              => StatusCount(run.parsed.processes, Len(run.parsed.processes),
                             "CLOSED")
                   = Cardinality(Matches(run.lsof.out, "TST=CLOSED\n"))

\* C4: a failed lsof gives an empty processesMsg only for exit status 1;
\* any other failure gives an errMsg carrying that error.
C4_CollectorOutcomes ==
    (run.kind = "done" /\ run.lsof.err # NoError) =>
        IF run.lsof.err = ErrExit1
        THEN run.msg = processesMsg(<<>>, <<>>, <<>>)
        ELSE run.msg = errMsg(run.lsof.err)

\* C5: on a text with no process block parseLsof returns normally, with no
\* process and no error.
C5_NoBlocksParseEmpty ==
    (/\ run.kind = "done"
     /\ run.lsof.err = NoError
     /\ NoBlocks(run.lsof.out))
        => /\ run.parsed.kind = "ok"
           /\ run.parsed.processes = <<>>

\* C6: with a non-empty port allow-list every connection of the result has
\* its local or its remote port in the list; with an empty list the port
\* test invalidates nothing.
C6_PortFilter ==
    Parsed =>
        /\ Len(settings.portFilter) > 0 =>
              \A c \in AllConns(run.parsed.processes) :
                 \/ Contains(settings.portFilter, c.localPort)
                 \/ Contains(settings.portFilter, c.remotePort)
        /\ Len(settings.portFilter) = 0 =>
              \A c \in AllConns(run.parsed.processes) :
                 portCheck([StartConnection EXCEPT !.conn = c], settings).valid

\* C7: with listenOnly enabled every connection of the result has status
\* LISTEN.
C7_ListenOnlyFilter ==
    (Parsed /\ settings.listenOnly) =>
        \A c \in AllConns(run.parsed.processes) : c.status = "LISTEN"

\* C8: parseLsof makes no working-directory lookup for the pid of a block
\* that the name allow-list excludes, so no such lookup can fail the parse.
C8_NoLookupForExcludedName ==
    (run.kind = "done" /\ run.parsed.kind # "none") =>
        \A i \in 1..Len(run.parsed.lookups) :
            run.parsed.lookups[i] \notin ExcludedPids(run.lsof.out, settings)

\* C9: every process of a result of parseLsof has at least one connection.
C9_NoProcessWithoutConnection ==
    Parsed =>
        \A i \in 1..Len(run.parsed.processes) :
            Len(run.parsed.processes[i].connections) >= 1

\* C9 witness: a parse that dropped a block that passed the name filter,
\* and kept another
C9_Witness ==
    /\ Parsed
    /\ C9_NoProcessWithoutConnection
    /\ Len(run.parsed.processes) >= 1
    /\ Cardinality({h \in BlockHeads(run.lsof.out) :
                      namePasses(settings, h.cmd)})
         > Len(run.parsed.processes)

Delivers(m) == BagIn(m, msgs) /\ msgs' = msgs (-) SetToBag({m})

\* C11: handling an errMsg sets the last error to the error of the message,
\* leaves processes, rowStarts and the table (rows and cursor) as they were,
\* and issues no command
C11_ErrMsgFrame ==
    [][\A m \in BagToSet(msgs) :
         (m.type = "errMsg" /\ Delivers(m)) =>
            /\ err' = m.err
            /\ processes' = processes
            /\ rowStarts' = rowStarts
            /\ table'.rows = table.rows
            /\ cmds' = cmds
            /\ last' = [msg |-> "errMsg", cmd |-> NoCmd]]_vars

\* C11 witness: an errMsg was handled while a snapshot with rows is shown
C11_Witness ==
    /\ last.msg = "errMsg"
    /\ err = ErrExit1
    /\ Len(processes) > 0
    /\ Len(table.rows) > 0
    /\ Len(rowStarts) = Len(processes)

\* C12: the last error is sticky: handling a processesMsg replaces processes,
\* rowStarts and rows by those of the message and leaves the error as it was;
\* an error that is set stays set in every later state; and the error changes
\* only in a step that handles an errMsg, which overwrites it
C12_ErrorSticky ==
    [][/\ \A m \in BagToSet(msgs) :
            (m.type = "processesMsg" /\ Delivers(m)) =>
               /\ err' = err
               /\ processes' = m.processes
               /\ rowStarts' = m.ends
               /\ table'.rows = m.rows
       /\ (err # NoError => err' # NoError)
       /\ (err' # err =>
              \E m \in BagToSet(msgs) :
                 m.type = "errMsg" /\ Delivers(m) /\ err' = m.err)]_vars

\* C12 witness: a processesMsg with processes was handled after an error was
\* recorded, and the error is still there
C12_Witness ==
    /\ last.msg = "processesMsg"
    /\ err # NoError
    /\ Len(processes) > 0
    /\ Len(table.rows) > 0

\* the working-directory marker of a lookup's output
CwdMarker == "fcwd\nn"

\* the text after the first marker of out, up to the next newline
MarkedPath(out) ==
    LET at == CHOOSE i \in Matches(out, CwdMarker) :
                 \A k \in Matches(out, CwdMarker) : i <= k
        rest == SliceFrom(out, at + Len(CwdMarker))
        stops == Matches(rest, "\n")
    IN  IF stops = {} THEN rest
        ELSE Slice(rest, 0, CHOOSE i \in stops : \A k \in stops : i <= k)

\* C13: for every pid whose working directory a run looked up, if the lookup
\* succeeded, getCwd returns normally with no error: the empty string when the
\* output has no marker, and the path after the marker up to the next newline
\* when it has one
C13_CwdMarker ==
    run.kind = "done" =>
        \A i \in 1..Len(run.parsed.lookups) :
            LET pid == run.parsed.lookups[i]
                out == CwdOutput(pid, run.lsofP)
                got == getCwd(pid, run.lsofP)
            IN  out.err = NoError =>
                    /\ got.kind = "ok"
                    /\ got.err = NoError
                    /\ got.val = IF Matches(out.out, CwdMarker) = {} THEN ""
                                 ELSE MarkedPath(out.out)

\* the snapshot the controller holds
Snapshot == [processes |-> processes, ends |-> rowStarts, rows |-> table.rows]

\* the snapshot a processesMsg carries
SnapshotOf(m) == [processes |-> m.processes, ends |-> m.ends, rows |-> m.rows]

\* C14: with refreshes in flight together and their results delivered in any
\* order, every delivery of a processesMsg leaves processes, rowStarts and
\* rows equal to those of that one message (rows and rowStarts being the
\* formatting of its processes), and no other step changes any of the three:
\* the snapshot held is always that of the last processesMsg delivered
C14_SnapshotFromOneMessage ==
    [][/\ \A m \in BagToSet(msgs) :
            (m.type = "processesMsg" /\ Delivers(m)) =>
               /\ Snapshot' = SnapshotOf(m)
               /\ table'.rows = formatLsof(processes', settings).rows
               /\ rowStarts' = formatLsof(processes', settings).ends
       /\ (Snapshot' # Snapshot =>
              \E m \in BagToSet(msgs) : m.type = "processesMsg" /\ Delivers(m))]_vars

\* C14 witness: of two refreshes in flight together, one result with
\* processes has been delivered and is the snapshot held, while the other, a
\* different one with processes, is still to be delivered
C14_Witness ==
    /\ last.msg = "processesMsg"
    /\ Len(processes) > 0
    /\ Len(rowStarts) = Len(processes)
    /\ Len(table.rows) > 0
    /\ \E m \in BagToSet(msgs) :
         /\ m.type = "processesMsg"
         /\ Len(m.processes) > 0
         /\ SnapshotOf(m) # Snapshot

====
